---- MODULE Spec2Model ----
(***************************************************************************)
(* riegeli::tensorflow::FileWriterBase (riegeli/tensorflow/io/             *)
(* file_writer.cc): a buffered writer over a tensorflow WritableFile.      *)
(*                                                                         *)
(* The writer's fields keep their names (start_pos_, start_, cursor_,      *)
(* limit_, filename_, buffer).  Pointers are addresses: 0 is nullptr and   *)
(* BufAddr is the address buffer_.GetData() returns.  Every call on the    *)
(* destination is recorded; its outcome (success or failure) is an input   *)
(* of the operation that makes it.                                         *)
(***************************************************************************)
EXTENDS Integers, Sequences, FiniteSets, TLC

\* ---------------------------------------------------------------- bounds
\* std::numeric_limits<Position>::max(), scaled down.
MaxPosition == 7
\* std::numeric_limits<size_t>::max(), scaled down; size_t may be narrower
\* than Position.
SizeMax == 4
\* Largest Options::buffer_size the model constructs a writer with.
MaxBufferSize == 3
\* Longest byte string passed to one Write.
MaxLen == 3
\* Total number of bytes passed to Write in one run.
MaxWritten == 6

\* The largest value of tensorflow::int64 on the scale of MaxPosition:
\* Tell() reports an int64, Position is the unsigned type of the same width.
TellMax == MaxPosition \div 2

\* The writer never looks at the bytes it is given, so the k-th byte passed to
\* Write in a run is named k: a byte lost, duplicated or moved always shows.
\* NextBytes(k, n) is the byte string of length n written after k bytes.
NextBytes(k, n) == [i \in 1..n |-> k + i]
\* What never-written buffer memory holds.
Garbage == 0
BufferSizes == 1..MaxBufferSize
TellPositions == {0, TellMax}
FileNames == {"", "f"}
FlushTypes == {"kFromObject", "kFromProcess", "kFromMachine"}

nullptr == 0
BufAddr == 1

Min(a, b) == IF a <= b THEN a ELSE b

VARIABLES
  initialized,   \* the constructor has run
  healthy,       \* Object::healthy()
  status,        \* the annotation of the failure the writer failed with
  filename_,     \* filename_
  buffer_size,   \* buffer_.size()
  mem,           \* the contents of buffer_
  start_pos_,    \* start_pos_
  start_,        \* start_
  cursor_,       \* cursor_
  limit_,        \* limit_
  appends,       \* every Destination.Append call so far: [data, ok]
  written,       \* the bytes of all Write calls so far, concatenated
  ackedLen,      \* the number of bytes of the Write calls that returned true
  initPos,       \* start_pos_ as the constructor left it
  onlyDirect,    \* so far only Writes at least buffer_size long were called
  onlySmall,     \* so far only non-empty Writes shorter than buffer_size
  last,          \* the last operation: its input, result and destination calls
  previous,      \* the operation before the last one, when it was a Flush
  heap,          \* Buffer: the memory blocks, each a sequence of bytes
  data_,         \* Buffer::data_: the block the Buffer owns, or nullptr
  capacity_,     \* Buffer::capacity_
  substr,        \* the argument of Buffer::ToCord: [offset, size]
  cord           \* the absl::Cord that Buffer::ToCord returned

writerVars == <<initialized, healthy, status, filename_, buffer_size, mem,
                start_pos_, start_, cursor_, limit_, appends, written,
                ackedLen, initPos, onlyDirect, onlySmall, last, previous>>
bufferVars == <<heap, data_, capacity_, substr, cord>>
vars == <<writerVars, bufferVars>>

\* ------------------------------------------------ the writer as a record
\* The operations are functions on a record of the writer's fields; `calls'
\* collects the destination calls of the running operation, `failAt' is the
\* index of the destination call of this operation that fails (0: none),
\* `ret' is the value the running function returned and `asserted' tells
\* whether every RIEGELI_ASSERT evaluated by the running operation held.
Self(f) ==
  [healthy |-> healthy, status |-> status, filename_ |-> filename_,
   buffer_size |-> buffer_size, mem |-> mem, start_pos_ |-> start_pos_,
   start_ |-> start_, cursor_ |-> cursor_, limit_ |-> limit_,
   appends |-> appends, calls |-> <<>>, failAt |-> f, ret |-> TRUE,
   asserted |-> TRUE]

available(w) == w.limit_ - w.cursor_
written_to_buffer(w) == w.cursor_ - w.start_
pos(w) == w.start_pos_ + written_to_buffer(w)
limit_pos(w) == w.start_pos_ + (w.limit_ - w.start_)

\* The status of a healthy writer.
NoStatus == <<>>

\* One call of a primitive of the destination; it fails iff it is the
\* failAt-th call of the running operation.
DestCall(w, op, data) ==
  [w EXCEPT !.calls = Append(@, [op |-> op, data |-> data,
                                 ok |-> (Len(w.calls) + 1 # w.failAt)])]
LastOk(w) == w.calls[Len(w.calls)].ok

\* Writer::Fail(): the first failure is kept, the buffer pointers are dropped.
Fail(w, st) ==
  [w EXCEPT !.healthy = FALSE,
            !.status = IF w.healthy THEN st ELSE @,
            !.start_ = nullptr, !.cursor_ = nullptr, !.limit_ = nullptr,
            !.ret = FALSE]

\* Writer::FailOverflow()
Overflow == <<"Writer position overflow">>
FailOverflow(w) == Fail(w, Overflow)

\* Mutant: " writing " and the name are appended even when no name is known.
FailOperation_AlwaysWriting(w, operation) ==
  Fail(w, <<operation, " failed", " writing ", w.filename_>>)

\* The annotation is the context string, kept as the pieces StrCat and
\* StrAppend join.
FailOperation(w, operation) ==
  LET context == <<operation, " failed">>
  IN  Fail(w, IF w.filename_ # ""
                THEN context \o <<" writing ", w.filename_>>
                ELSE context)

SaturatingAdd(a, b) == IF a + b > SizeMax THEN SizeMax ELSE a + b

\* Mutant: the buffer size is inflated by the bytes already buffered.
LengthToWriteDirectly_Buffered(w) ==
  IF written_to_buffer(w) > 0
    THEN SaturatingAdd(written_to_buffer(w), w.buffer_size)
    ELSE w.buffer_size

\* Mutant: the threshold is one more than the buffer size.
LengthToWriteDirectly_OffByOne(w) ==
  IF written_to_buffer(w) > 0
    THEN SaturatingAdd(available(w), w.buffer_size)
    ELSE w.buffer_size + 1

LengthToWriteDirectly(w) ==
  IF written_to_buffer(w) > 0
    THEN SaturatingAdd(available(w), w.buffer_size)
    ELSE w.buffer_size

\* The RIEGELI_ASSERTs at the entry of WriteInternal().
Preconditions(w, src) ==
  [w EXCEPT !.asserted = /\ @
                         /\ Len(src) > 0
                         /\ w.healthy
                         /\ written_to_buffer(w) = 0]

\* Mutant: start_pos_ is advanced before the outcome of Append is known.
WriteInternal_AdvancesFirst(w, src) ==
  IF Len(src) > MaxPosition - w.start_pos_
    THEN FailOverflow(Preconditions(w, src))
    ELSE LET w1 == DestCall([Preconditions(w, src) EXCEPT
                               !.start_pos_ = @ + Len(src)], "Append", src)
         IN  IF ~LastOk(w1)
               THEN FailOperation([w1 EXCEPT !.appends =
                                     Append(@, [data |-> src, ok |-> FALSE])],
                                  "WritableFile::Append(string_view)")
               ELSE [w1 EXCEPT !.appends = Append(@, [data |-> src, ok |-> TRUE]),
                               !.ret = TRUE]

\* Mutant: no overflow check before the Append.
WriteInternal_NoOverflowCheck(w, src) ==
  LET w1 == DestCall(Preconditions(w, src), "Append", src)
  IN  IF ~LastOk(w1)
        THEN FailOperation([w1 EXCEPT !.appends =
                              Append(@, [data |-> src, ok |-> FALSE])],
                           "WritableFile::Append(string_view)")
        ELSE [w1 EXCEPT !.start_pos_ = @ + Len(src),
                        !.appends = Append(@, [data |-> src, ok |-> TRUE]),
                        !.ret = TRUE]

WriteInternal(w, src) ==
  IF Len(src) > MaxPosition - w.start_pos_
    THEN FailOverflow(Preconditions(w, src))
    ELSE LET w1 == DestCall(Preconditions(w, src), "Append", src)
         IN  IF ~LastOk(w1)
               THEN FailOperation([w1 EXCEPT !.appends =
                                     Append(@, [data |-> src, ok |-> FALSE])],
                                  "WritableFile::Append(string_view)")
               ELSE [w1 EXCEPT !.start_pos_ = @ + Len(src),
                               !.appends = Append(@, [data |-> src, ok |-> TRUE]),
                               !.ret = TRUE]

\* The bytes of the buffer in [from, to).
Span(w, from, to) ==
  [i \in 1..(to - from) |-> w.mem[from - BufAddr + i]]

\* Mutant: the whole window is handed over, not only the bytes written to it.
PushInternal_WholeWindow(w) ==
  IF ~w.healthy THEN [w EXCEPT !.ret = FALSE]
  ELSE LET buffered_length == written_to_buffer(w)
       IN  IF buffered_length = 0 THEN [w EXCEPT !.ret = TRUE]
           ELSE WriteInternal([w EXCEPT !.cursor_ = w.start_],
                              Span(w, w.start_, w.limit_))

\* Mutant: a failed writer reports success.
PushInternal_SucceedsWhenFailed(w) ==
  IF ~w.healthy THEN [w EXCEPT !.ret = TRUE]
  ELSE LET buffered_length == written_to_buffer(w)
       IN  IF buffered_length = 0 THEN [w EXCEPT !.ret = TRUE]
           ELSE WriteInternal([w EXCEPT !.cursor_ = w.start_],
                              Span(w, w.start_, w.start_ + buffered_length))

\* Mutant: the health of the writer is not checked.
PushInternal_NoHealthCheck(w) ==
  LET buffered_length == written_to_buffer(w)
  IN  IF buffered_length = 0 THEN [w EXCEPT !.ret = TRUE]
      ELSE WriteInternal([w EXCEPT !.cursor_ = w.start_],
                         Span(w, w.start_, w.start_ + buffered_length))

\* Mutant: the cursor is not moved back to the start of the buffer.
PushInternal_NoReset(w) ==
  IF ~w.healthy THEN [w EXCEPT !.ret = FALSE]
  ELSE LET buffered_length == written_to_buffer(w)
       IN  IF buffered_length = 0 THEN [w EXCEPT !.ret = TRUE]
           ELSE WriteInternal(w, Span(w, w.start_, w.start_ + buffered_length))

PushInternal(w) ==
  IF ~w.healthy THEN [w EXCEPT !.ret = FALSE]
  ELSE LET buffered_length == written_to_buffer(w)
       IN  IF buffered_length = 0 THEN [w EXCEPT !.ret = TRUE]
           ELSE WriteInternal([w EXCEPT !.cursor_ = w.start_],
                              Span(w, w.start_, w.start_ + buffered_length))

PushSlow(w) ==
  LET w1 == PushInternal(w)
  IN  IF ~w1.ret THEN w1
      ELSE IF w1.start_pos_ = MaxPosition THEN FailOverflow(w1)
      ELSE [w1 EXCEPT !.start_ = BufAddr,
                      !.cursor_ = BufAddr,
                      !.limit_ = BufAddr + Min(w1.buffer_size,
                                               MaxPosition - w1.start_pos_),
                      !.ret = TRUE]

\* Writer::Push()
PushOp(w) ==
  IF available(w) >= 1 THEN [w EXCEPT !.ret = TRUE] ELSE PushSlow(w)

\* memcpy(cursor_, src, n); cursor_ += n
Copy(w, src) ==
  [w EXCEPT !.mem = [i \in DOMAIN w.mem |->
                       IF /\ i >= w.cursor_ - BufAddr + 1
                          /\ i <= w.cursor_ - BufAddr + Len(src)
                         THEN src[i - (w.cursor_ - BufAddr)]
                         ELSE w.mem[i]],
            !.cursor_ = @ + Len(src)]

\* Writer::WriteSlow(): the default buffering.
RECURSIVE WriterWriteSlow(_, _)
WriterWriteSlow(w, src) ==
  LET available_length == available(w)
      w1 == IF available_length > 0
              THEN Copy(w, SubSeq(src, 1, available_length))
              ELSE w
      rest == SubSeq(src, available_length + 1, Len(src))
      w2 == PushSlow(w1)
  IN  IF ~w2.ret THEN w2
      ELSE IF Len(rest) > available(w2) THEN WriterWriteSlow(w2, rest)
      ELSE [Copy(w2, rest) EXCEPT !.ret = TRUE]

\* Mutant: the bytes are appended whether or not the pending bytes were.
WriteSlow_IgnoresPush(w, src) ==
  IF Len(src) >= LengthToWriteDirectly(w)
    THEN WriteInternal(PushInternal(w), src)
    ELSE WriterWriteSlow(w, src)

\* Mutant: the bytes are appended before the pending bytes of the buffer.
WriteSlow_NoPush(w, src) ==
  IF Len(src) >= LengthToWriteDirectly(w)
    THEN WriteInternal(w, src)
    ELSE WriterWriteSlow(w, src)

\* Mutant: the comparison with the threshold is the wrong way round.
WriteSlow_Inverted(w, src) ==
  IF Len(src) <= LengthToWriteDirectly(w)
    THEN LET w1 == PushInternal(w)
         IN  IF ~w1.ret THEN w1 ELSE WriteInternal(w1, src)
    ELSE WriterWriteSlow(w, src)

WriteSlow(w, src) ==
  IF Len(src) >= LengthToWriteDirectly(w)
    THEN LET w1 == PushInternal(w)
         IN  IF ~w1.ret THEN w1 ELSE WriteInternal(w1, src)
    ELSE WriterWriteSlow(w, src)

\* Writer::Write(string_view)
WriteOp(w, src) ==
  IF Len(src) <= available(w)
    THEN [(IF Len(src) > 0 THEN Copy(w, src) ELSE w) EXCEPT !.ret = TRUE]
    ELSE WriteSlow(w, src)

\* Mutant: a successful Flush gives up the room left in the window.
FlushOp_DropsWindow(w, flush_type) ==
  LET w1 == PushInternal(w)
  IN  IF ~w1.ret THEN w1
      ELSE CASE flush_type = "kFromObject" ->
                  [w1 EXCEPT !.limit_ = w1.start_, !.ret = TRUE]
             [] flush_type = "kFromProcess" ->
                  LET w2 == DestCall(w1, "Flush", <<>>)
                  IN  IF ~LastOk(w2)
                        THEN FailOperation(w2, "WritableFile::Flush()")
                        ELSE [w2 EXCEPT !.limit_ = w2.start_, !.ret = TRUE]
             [] flush_type = "kFromMachine" ->
                  LET w2 == DestCall(w1, "Sync", <<>>)
                  IN  IF ~LastOk(w2)
                        THEN FailOperation(w2, "WritableFile::Sync()")
                        ELSE [w2 EXCEPT !.limit_ = w2.start_, !.ret = TRUE]

FlushOp(w, flush_type) ==
  LET w1 == PushInternal(w)
  IN  IF ~w1.ret THEN w1
      ELSE CASE flush_type = "kFromObject" -> [w1 EXCEPT !.ret = TRUE]
             [] flush_type = "kFromProcess" ->
                  LET w2 == DestCall(w1, "Flush", <<>>)
                  IN  IF ~LastOk(w2)
                        THEN FailOperation(w2, "WritableFile::Flush()")
                        ELSE [w2 EXCEPT !.ret = TRUE]
             [] flush_type = "kFromMachine" ->
                  LET w2 == DestCall(w1, "Sync", <<>>)
                  IN  IF ~LastOk(w2)
                        THEN FailOperation(w2, "WritableFile::Sync()")
                        ELSE [w2 EXCEPT !.ret = TRUE]

\* ------------------------------------------------------- initialization
\* Mutant: a destination without support for Name() fails the writer.
InitializeFilename_NoUnimplemented(w, name_status, filename) ==
  LET w1 == [w EXCEPT !.calls = Append(@, [op |-> "Name",
                                           data |-> <<name_status, filename>>,
                                           ok |-> (name_status = "ok")])]
  IN  IF name_status # "ok"
        THEN FailOperation(w1, "WritableFile::Name()")
        ELSE [w1 EXCEPT !.filename_ = filename]

\* name_status is "ok", "unimplemented" or "failed"; the call is logged with
\* the answer of the destination as its data.
InitializeFilename(w, name_status, filename) ==
  LET w1 == [w EXCEPT !.calls = Append(@, [op |-> "Name",
                                           data |-> <<name_status, filename>>,
                                           ok |-> (name_status = "ok")])]
  IN  IF name_status # "ok"
        THEN IF name_status # "unimplemented"
               THEN FailOperation(w1, "WritableFile::Name()")
               ELSE w1
        ELSE [w1 EXCEPT !.filename_ = filename]

\* Mutant: start_pos_ is assigned whether or not Tell() succeeded.
InitializePos_AssignsAnyway(w, tell_ok, file_pos) ==
  LET w1 == [w EXCEPT !.calls = Append(@, [op |-> "Tell", data |-> <<>>,
                                           ok |-> tell_ok]),
                      !.start_pos_ = file_pos]
  IN  IF ~tell_ok THEN FailOperation(w1, "WritableFile::Tell()")
      ELSE w1

InitializePos(w, tell_ok, file_pos) ==
  LET w1 == [w EXCEPT !.calls = Append(@, [op |-> "Tell", data |-> <<>>,
                                           ok |-> tell_ok])]
  IN  IF ~tell_ok THEN FailOperation(w1, "WritableFile::Tell()")
      ELSE [w1 EXCEPT !.start_pos_ = file_pos]

\* OpenFile(): ret is FALSE when nullptr is returned.
OpenFile(w, filename, append, open_ok) ==
  LET operation == IF append THEN "Env::NewAppendableFile()"
                             ELSE "Env::NewWritableFile()"
      w1 == [w EXCEPT !.filename_ = filename,
                      !.calls = Append(@, [op |-> operation, data |-> <<>>,
                                           ok |-> open_ok])]
  IN  IF ~open_ok THEN FailOperation(w1, operation)
      ELSE [w1 EXCEPT !.ret = TRUE]

\* ------------------------------------------------------- Buffer::ToCord
\* `absl::Cord::InlineRep::kMaxInline`
kMaxInline == 15
\* `kMaxFlatSize` from cord.cc
kMaxFlatSize == 4096 - 13
\* riegeli::kMinBufferSize, the floor of Wasteful()
kMinBufferSize == 256
\* The largest capacity of a Buffer the model converts.
MaxCapacity == 10000
Capacities == {16, 600, 5000, MaxCapacity}
SubstrSizes == {0, 1, kMaxInline, kMaxInline + 1, 300, kMaxFlatSize,
                kMaxFlatSize + 1, 6000}

\* The blocks of memory: the one the Buffer was allocated with and the one
\* ToCord may allocate.
SrcBlock == 1
NewBlock == 2
\* A block that is not allocated.
Free == <<>>
\* A Buffer is filled with the bytes 1, 2, 3, ...
Filled(capacity) == [i \in 1..capacity |-> i]
\* What the owner of the Buffer overwrites a byte with afterwards.
Scribble == 0
NoCord == [rep |-> "none"]

Max(a, b) == IF a >= b THEN a ELSE b
\* riegeli::Wasteful()
Wasteful(total, used) == total - used > Max(used, kMinBufferSize)

\* The bytes of block b in [offset, offset + size).
Bytes(h, b, offset, size) == [i \in 1..size |-> h[b][offset + i]]

\* absl::Cord(absl::string_view): the bytes are copied into the Cord's own node.
CordOfCopy(h, b, sub) ==
  [rep |-> "flat", bytes |-> Bytes(h, b, sub.offset, sub.size)]
\* absl::MakeCordFromExternal(data, Releaser{buffer}): the Cord refers to the
\* bytes in place and its releaser owns the Buffer.
MakeCordFromExternal(b, offset, size, releaser) ==
  [rep |-> "external", block |-> b, offset |-> offset, size |-> size,
   releaser |-> releaser]

\* Mutant: the Buffer is handed over whatever the size of the substring.
ToCord_AlwaysShare(h, d, c, sub) ==
  [heap |-> h, data_ |-> nullptr, capacity_ |-> 0,
   cord |-> MakeCordFromExternal(d, sub.offset, sub.size,
                                 [data_ |-> d, capacity_ |-> c])]

\* Buffer::ToCord(substr) on the Buffer (d, c) with the memory h: the memory,
\* the Buffer and the Cord afterwards.
ToCord(h, d, c, sub) ==
  IF sub.size <= kMaxInline \/ Wasteful(c, sub.size)
    THEN IF sub.size <= kMaxFlatSize
           THEN [heap |-> h, data_ |-> d, capacity_ |-> c,
                 cord |-> CordOfCopy(h, d, sub)]
           ELSE LET h1 == [h EXCEPT ![NewBlock] =
                                      Bytes(h, d, sub.offset, sub.size)]
                IN  [heap |-> h1, data_ |-> d, capacity_ |-> c,
                     cord |-> MakeCordFromExternal(
                                NewBlock, 0, sub.size,
                                [data_ |-> NewBlock, capacity_ |-> sub.size])]
    ELSE [heap |-> h, data_ |-> nullptr, capacity_ |-> 0,
          cord |-> MakeCordFromExternal(d, sub.offset, sub.size,
                                        [data_ |-> d, capacity_ |-> c])]

\* The bytes a Cord stands for.
CordValue(h, c) ==
  IF c.rep = "flat" THEN c.bytes
  ELSE Bytes(h, c.block, c.offset, c.size)

\* The Buffer of the writer's run: not converted.
NoBuffer ==
  /\ heap = [b \in {SrcBlock, NewBlock} |-> Free]
  /\ data_ = nullptr
  /\ capacity_ = 0
  /\ substr = [offset |-> 0, size |-> 0]
  /\ cord = NoCord

\* ----------------------------------------------------------- the machine
\* The outcome of each destination call is an input of the operation: f is
\* the index of the call that fails, among the calls the operation makes when
\* none fails (0: none fails).
Before == [healthy |-> healthy, start_pos_ |-> start_pos_, start_ |-> start_,
           cursor_ |-> cursor_, limit_ |-> limit_,
           buffered |-> Span(Self(0), start_, cursor_)]

Store(w) ==
  /\ healthy' = w.healthy
  /\ status' = w.status
  /\ filename_' = w.filename_
  /\ mem' = w.mem
  /\ start_pos_' = w.start_pos_
  /\ start_' = w.start_
  /\ cursor_' = w.cursor_
  /\ limit_' = w.limit_
  /\ appends' = w.appends

NoFlush == [flush_type |-> "", ret |-> TRUE, healthy |-> TRUE]

Done(w, op, arg) ==
  /\ last' = [op |-> op, arg |-> arg, ret |-> w.ret, calls |-> w.calls,
              asserted |-> w.asserted, before |-> Before]
  /\ previous' = IF last.op = "Flush"
                   THEN [flush_type |-> last.arg, ret |-> last.ret,
                         healthy |-> last.before.healthy]
                   ELSE NoFlush

Init ==
  /\ initialized = FALSE
  /\ healthy = TRUE
  /\ status = NoStatus
  /\ filename_ = ""
  /\ buffer_size \in BufferSizes
  /\ mem = [i \in 1..buffer_size |-> Garbage]
  /\ start_pos_ = 0
  /\ start_ = nullptr
  /\ cursor_ = nullptr
  /\ limit_ = nullptr
  /\ appends = <<>>
  /\ written = <<>>
  /\ ackedLen = 0
  /\ initPos = 0
  /\ onlyDirect = TRUE
  /\ onlySmall = TRUE
  /\ last = [op |-> "none", arg |-> <<>>, ret |-> TRUE, calls |-> <<>>,
             asserted |-> TRUE, before |-> Before]
  /\ previous = NoFlush
  /\ NoBuffer

\* FileWriter(dest, options)
Initialize ==
  /\ ~initialized
  /\ \E name_status \in {"ok", "unimplemented", "failed"},
        filename \in FileNames, tell_ok \in BOOLEAN, file_pos \in TellPositions :
       LET w == InitializePos(InitializeFilename(Self(0), name_status, filename),
                              tell_ok, file_pos)
       IN  /\ Store(w)
           /\ initPos' = w.start_pos_
           /\ Done(w, "Initialize", <<>>)
  /\ initialized' = TRUE
  /\ UNCHANGED <<buffer_size, written, ackedLen, onlyDirect, onlySmall>>
  /\ UNCHANGED bufferVars

\* FileWriter(filename, options)
InitializeByName ==
  /\ ~initialized
  /\ \E filename \in FileNames \ {""}, append \in BOOLEAN, open_ok \in BOOLEAN,
        tell_ok \in BOOLEAN, file_pos \in TellPositions :
       LET w0 == OpenFile(Self(0), filename, append, open_ok)
           w == IF ~w0.ret THEN w0 ELSE InitializePos(w0, tell_ok, file_pos)
       IN  /\ Store(w)
           /\ initPos' = w.start_pos_
           /\ Done(w, "Initialize", <<>>)
  /\ initialized' = TRUE
  /\ UNCHANGED <<buffer_size, written, ackedLen, onlyDirect, onlySmall>>
  /\ UNCHANGED bufferVars

Push ==
  /\ initialized
  /\ \E f \in 0..Len(PushOp(Self(0)).calls) :
       LET w == PushOp(Self(f))
       IN  /\ Store(w)
           /\ Done(w, "Push", <<>>)
  /\ onlyDirect' = FALSE
  /\ onlySmall' = FALSE
  /\ UNCHANGED <<initialized, buffer_size, written, ackedLen, initPos>>
  /\ UNCHANGED bufferVars

Write ==
  /\ initialized
  /\ \E n \in 0..MaxLen :
       /\ Len(written) + n <= MaxWritten
       /\ \E f \in 0..Len(WriteOp(Self(0), NextBytes(Len(written), n)).calls) :
          LET src == NextBytes(Len(written), n)
              w == WriteOp(Self(f), src)
          IN  /\ Store(w)
              /\ Done(w, "Write", src)
              /\ written' = written \o src
              /\ ackedLen' = IF w.ret THEN ackedLen + Len(src) ELSE ackedLen
              /\ onlyDirect' = (onlyDirect /\ Len(src) >= buffer_size)
              /\ onlySmall' = (onlySmall /\ Len(src) > 0 /\ Len(src) < buffer_size)
  /\ UNCHANGED <<initialized, buffer_size, initPos>>
  /\ UNCHANGED bufferVars

Flush ==
  /\ initialized
  /\ \E flush_type \in FlushTypes :
     \E f \in 0..Len(FlushOp(Self(0), flush_type).calls) :
       LET w == FlushOp(Self(f), flush_type)
       IN  /\ Store(w)
           /\ Done(w, "Flush", flush_type)
  /\ onlyDirect' = FALSE
  /\ onlySmall' = FALSE
  /\ UNCHANGED <<initialized, buffer_size, written, ackedLen, initPos>>
  /\ UNCHANGED bufferVars

Next == Initialize \/ InitializeByName \/ Push \/ Write \/ Flush

Spec == Init /\ [][Next]_vars

\* ------------------------------------------- the machine of Buffer::ToCord
\* A Buffer of some capacity, filled, and a substring of it; the writer is
\* not used.
BufferInit ==
  /\ initialized = FALSE
  /\ healthy = TRUE
  /\ status = NoStatus
  /\ filename_ = ""
  /\ buffer_size = 1
  /\ mem = [i \in 1..buffer_size |-> Garbage]
  /\ start_pos_ = 0
  /\ start_ = nullptr
  /\ cursor_ = nullptr
  /\ limit_ = nullptr
  /\ appends = <<>>
  /\ written = <<>>
  /\ ackedLen = 0
  /\ initPos = 0
  /\ onlyDirect = TRUE
  /\ onlySmall = TRUE
  /\ last = [op |-> "none", arg |-> <<>>, ret |-> TRUE, calls |-> <<>>,
             asserted |-> TRUE, before |-> Before]
  /\ previous = NoFlush
  /\ capacity_ \in Capacities
  /\ data_ = SrcBlock
  /\ heap = [b \in {SrcBlock, NewBlock} |->
               IF b = SrcBlock THEN Filled(capacity_) ELSE Free]
  /\ \E size \in SubstrSizes : \E offset \in {0, 1, capacity_ - size} :
       /\ offset >= 0
       /\ offset + size <= capacity_
       /\ substr = [offset |-> offset, size |-> size]
  /\ cord = NoCord

\* cord = buffer.ToCord(substr)
Convert ==
  /\ cord.rep = "none"
  /\ LET r == ToCord(heap, data_, capacity_, substr)
     IN  /\ heap' = r.heap
         /\ data_' = r.data_
         /\ capacity_' = r.capacity_
         /\ cord' = r.cord
  /\ UNCHANGED substr
  /\ UNCHANGED writerVars

\* The caller, while it still owns the Buffer, overwrites one of its bytes.
Overwrite ==
  /\ cord.rep \in {"flat", "external"}
  /\ data_ # nullptr
  /\ \E i \in {substr.offset + 1, substr.offset + substr.size, capacity_} :
       /\ i \in 1..capacity_
       /\ heap[data_][i] # Scribble
       /\ heap' = [heap EXCEPT ![data_][i] = Scribble]
  /\ UNCHANGED <<data_, capacity_, substr, cord>>
  /\ UNCHANGED writerVars

\* The last reference to the Cord goes away: the releaser of an external
\* Cord frees the Buffer it holds.
Release ==
  /\ cord.rep \in {"flat", "external"}
  /\ heap' = IF cord.rep = "external"
               THEN [heap EXCEPT ![cord.releaser.data_] = Free]
               ELSE heap
  /\ cord' = [rep |-> "released"]
  /\ UNCHANGED <<data_, capacity_, substr>>
  /\ UNCHANGED writerVars

BufferNext == Convert \/ Overwrite \/ Release

BufferSpec == BufferInit /\ [][BufferNext]_vars

TypeOK ==
  /\ start_pos_ \in 0..MaxPosition
  /\ start_ \in {nullptr, BufAddr}
  /\ start_ <= cursor_ /\ cursor_ <= limit_
  /\ limit_ - start_ <= buffer_size

\* ------------------------------------------------------------ properties
RECURSIVE Concat(_)
Concat(payloads) ==
  IF payloads = <<>> THEN <<>>
  ELSE Head(payloads).data \o Concat(Tail(payloads))

IsOk(call) == call.ok
\* What the destination accepted: the payloads of the successful Appends.
Received == Concat(SelectSeq(appends, IsOk))
\* The total length of everything passed to Append, accepted or not.
PassedToAppend == Len(Concat(appends))

IsAppend(call) == call.op = "Append"
IsFlush(call) == call.op = "Flush"
IsSync(call) == call.op = "Sync"
NumCalls(calls, Test(_)) == Len(SelectSeq(calls, Test))

Position == start_pos_ + (cursor_ - start_)
LimitPosition == start_pos_ + (limit_ - start_)
PositionBefore == last.before.start_pos_ + Len(last.before.buffered)

InitOperations == {"WritableFile::Name()", "WritableFile::Tell()",
                   "Env::NewAppendableFile()", "Env::NewWritableFile()"}
\* The constructor left the writer healthy.
Opened == initialized /\ (status = NoStatus \/ status[1] \notin InitOperations)

C2_DestinationReceivesAll ==
  (Opened /\ healthy /\ cursor_ = start_) => Received = written

\* The destination holds 4 bytes or more that came in 2 Appends or more, the
\* last of them a flush of several buffered bytes.
C2_Witness ==
  /\ healthy /\ cursor_ = start_
  /\ Len(written) >= 4 /\ Len(appends) >= 2
  /\ last.op = "Flush" /\ Len(last.before.buffered) >= 2

\* C3: the logical position of a healthy writer is the initial position plus
\* the bytes of the Writes that returned success; the position never exceeds
\* the maximum, and a Write that would take it beyond returns failure.
C3_PositionTracksWrites ==
  initialized =>
    /\ healthy => Position = initPos + ackedLen
    /\ Position <= MaxPosition
    /\ (last.op = "Write" /\ PositionBefore + Len(last.arg) > MaxPosition)
         => ~last.ret

\* C4: start_pos + (limit - start) never exceeds the maximum position.
C4_LimitPosInRange == LimitPosition <= MaxPosition

\* C5: the initial position plus the length of all the bytes passed to Append
\* is at most the maximum position; an operation that fails with overflow
\* made no failing call on the destination.
C5_OverflowBeforeAppend ==
  /\ initPos + PassedToAppend <= MaxPosition
  /\ (~last.ret /\ last.before.healthy /\ status = Overflow)
       => \A i \in DOMAIN last.calls : last.calls[i].ok

\* WriteInternal refused bytes that did not fit below the maximum position.
C5_Witness ==
  /\ status = Overflow /\ start_pos_ < MaxPosition
  /\ last.before.healthy /\ last.op = "Write"
  /\ Len(last.arg) > MaxPosition - start_pos_

\* C6: Flush appends the pending bytes first (one Append iff something is
\* buffered), then makes the call of its level and no other; when pushing the
\* pending bytes fails, neither Flush nor Sync is called.
C6_FlushCalls ==
  last.op = "Flush" =>
    LET pending == last.before.buffered
        calls == last.calls
        pushed == /\ last.before.healthy
                  /\ \A i \in DOMAIN calls : IsAppend(calls[i]) => calls[i].ok
        nFlush == NumCalls(calls, IsFlush)
        nSync == NumCalls(calls, IsSync)
    IN  /\ NumCalls(calls, IsAppend) = (IF pending # <<>> THEN 1 ELSE 0)
        /\ pending # <<>> => IsAppend(calls[1]) /\ calls[1].data = pending
        /\ ~pushed => nFlush = 0 /\ nSync = 0
        /\ pushed =>
             /\ nFlush = (IF last.arg = "kFromProcess" THEN 1 ELSE 0)
             /\ nSync = (IF last.arg = "kFromMachine" THEN 1 ELSE 0)

\* C7 (as stated): the second of two consecutive object-level Flushes, the
\* first of them called on a healthy writer, makes no call on the destination
\* and returns success.
C7_SecondFlushSucceeds ==
  (last.op = "Flush" /\ last.arg = "kFromObject"
     /\ previous.flush_type = "kFromObject" /\ previous.healthy)
    => last.calls = <<>> /\ last.ret

\* C7 (amended): the second of two consecutive object-level Flushes makes no
\* call on the destination and returns what the first returned.
C7_SecondFlushIdle ==
  (last.op = "Flush" /\ last.arg = "kFromObject"
     /\ previous.flush_type = "kFromObject")
    => last.calls = <<>> /\ last.ret = previous.ret

\* The second object-level Flush in a row, after the first one appended.
C7_Witness ==
  /\ last.op = "Flush" /\ last.arg = "kFromObject"
  /\ previous.flush_type = "kFromObject" /\ previous.ret
  /\ last.ret /\ Len(appends) > 0 /\ Received = written

FlushFailures == {"WritableFile::Flush()", "WritableFile::Sync()"}
FailedInFlush == status # NoStatus /\ status[1] \in FlushFailures

\* The annotation names the operation and has the name iff one is known.
Annotated(operation) ==
  /\ status[1] = operation /\ status[2] = " failed"
  /\ IF filename_ # ""
       THEN status = <<operation, " failed", " writing ", filename_>>
       ELSE Len(status) = 2

\* The last destination call of the last operation was `op' and failed.
LastCallFailed(op) ==
  /\ last.calls # <<>>
  /\ last.calls[Len(last.calls)].op = op
  /\ ~last.calls[Len(last.calls)].ok

C9_LongWritesGoDirectly ==
  (Opened /\ onlyDirect /\ healthy) =>
    /\ cursor_ = start_
    /\ \A i \in DOMAIN mem : mem[i] = Garbage
    /\ Received = written
    /\ Position = initPos + Len(written)
    /\ last.op = "Write" =>
         /\ last.calls = <<[op |-> "Append", data |-> last.arg, ok |-> TRUE]>>
         /\ appends[Len(appends)].data = last.arg

\* Buffer of 2 at position 0: two Writes of 3 bytes, position 6.
C9_Witness ==
  /\ onlyDirect /\ healthy /\ buffer_size = 2 /\ initPos = 0
  /\ Len(appends) = 2 /\ Len(appends[1].data) = 3 /\ Len(appends[2].data) = 3
  /\ Position = 6

\* C10: on a freshly opened writer far from the maximum position, while only
\* non-empty Writes shorter than the buffer were called and they total at
\* most the buffer size, at most one Append was made and the position is the
\* initial position plus the number of bytes written.
C10_SmallWritesAreBuffered ==
  (Opened /\ onlySmall /\ Len(written) <= buffer_size
     /\ initPos + buffer_size <= MaxPosition) =>
    /\ Len(appends) <= 1
    /\ Position = initPos + Len(written)
    /\ last.op = "Write" => last.ret

\* Buffer of 3: three Writes of one byte.
C10_Witness ==
  /\ Opened /\ onlySmall /\ buffer_size = 3 /\ Len(written) = 3
  /\ last.op = "Write" /\ Len(last.arg) = 1 /\ Len(last.before.buffered) = 2
  /\ previous = NoFlush /\ Position = initPos + 3

\* The destination calls an operation makes for the pending bytes: one
\* Append of them when there are any, none otherwise.
IsAppendOf(call, data) == call.op = "Append" /\ call.data = data
AllOk(calls) == \A i \in DOMAIN calls : calls[i].ok

\* C11: Push returns success only with at least 1 byte of room.  Entered on
\* a healthy writer with zero room, it appends the pending bytes first; then
\* it fails with overflow if start_pos is the maximum position, and
\* otherwise leaves an empty window of min(buffer size, maximum - start_pos)
\* bytes, which is at least 1.
C11_PushMakesRoom ==
  last.op = "Push" =>
    /\ last.ret => limit_ - cursor_ >= 1
    /\ (last.before.healthy /\ last.before.limit_ = last.before.cursor_) =>
         LET pending == last.before.buffered
         IN  /\ IF pending # <<>>
                  THEN Len(last.calls) = 1 /\ IsAppendOf(last.calls[1], pending)
                  ELSE last.calls = <<>>
             /\ AllOk(last.calls) =>
                  IF start_pos_ = MaxPosition
                    THEN ~last.ret /\ status = Overflow
                    ELSE /\ last.ret
                         /\ cursor_ = start_
                         /\ limit_ - start_ =
                              Min(buffer_size, MaxPosition - start_pos_)
                         /\ limit_ - start_ >= 1

\* What the substring held when ToCord was called.
SubstrBytes == [i \in 1..substr.size |-> substr.offset + i]
Converted == cord.rep \in {"flat", "external"}
CopyCase ==
  substr.size <= kMaxInline \/ Wasteful(Len(heap[SrcBlock]), substr.size)

\* C12: the Cord that ToCord returns equals the substring.  When the
\* substring is within the inline threshold or the Buffer is wasteful for it,
\* the Cord is a copy: the Buffer stays with the caller and the Cord does not
\* refer to its memory, so overwriting the Buffer does not change the Cord.
\* Otherwise the Buffer is moved into the Cord, which refers to the bytes in
\* place: nothing is copied.
C12_ToCord ==
  Converted =>
    /\ CordValue(heap, cord) = SubstrBytes
    /\ CopyCase =>
         /\ data_ = SrcBlock /\ capacity_ = Len(heap[SrcBlock])
         /\ cord.rep = "external" =>
              cord.block # SrcBlock /\ cord.releaser.data_ # SrcBlock
    /\ ~CopyCase =>
         /\ data_ = nullptr
         /\ cord.rep = "external"
         /\ cord.block = SrcBlock /\ cord.offset = substr.offset
         /\ cord.releaser = [data_ |-> SrcBlock,
                             capacity_ |-> Len(heap[SrcBlock])]
         /\ heap[NewBlock] = Free

\* A short substring of a large Buffer was converted and the caller then
\* overwrote its first byte in the Buffer.
C12_Witness ==
  /\ Converted /\ substr.size = kMaxInline /\ Len(heap[SrcBlock]) = 600
  /\ heap[SrcBlock][substr.offset + 1] = Scribble
  /\ cord.rep = "flat"

\* What PushInternal is to do with pending bytes: move the cursor back to
\* the start and hand the bytes that were buffered to WriteInternal.
HandsOver(w) ==
  WriteInternal([w EXCEPT !.cursor_ = w.start_],
                Span(w, w.start_, w.cursor_))

\* C13 (as stated): PushInternal changes nothing and returns success when the
\* writer has failed or nothing is buffered; otherwise it moves the cursor
\* back to the start and returns what WriteInternal returns for the bytes
\* that were buffered.
C13_PushInternalSucceedsWhenFailed ==
  initialized =>
    \A f \in 0..1 :
      LET w == Self(f)
      IN  IF ~healthy \/ cursor_ = start_
            THEN PushInternal(w) = [w EXCEPT !.ret = TRUE]
            ELSE PushInternal(w) = HandsOver(w)

\* C13 (amended): PushInternal changes nothing and returns failure when the
\* writer has failed; it changes nothing and returns success when the writer
\* is healthy and nothing is buffered; otherwise it moves the cursor back to
\* the start and returns what WriteInternal returns for the bytes that were
\* buffered.  So a Flush of a failed writer fails without a destination call.
C13_PushInternal ==
  initialized =>
    /\ \A f \in 0..1 :
         LET w == Self(f)
         IN  IF ~healthy THEN PushInternal(w) = [w EXCEPT !.ret = FALSE]
             ELSE IF cursor_ = start_
               THEN PushInternal(w) = [w EXCEPT !.ret = TRUE]
               ELSE PushInternal(w) = HandsOver(w)
    /\ (last.op = "Flush" /\ ~last.before.healthy)
         => ~last.ret /\ last.calls = <<>>
    /\ (last.op = "Flush" /\ last.before.healthy
          /\ last.before.buffered = <<>> /\ last.arg = "kFromObject")
         => last.ret /\ last.calls = <<>>

\* A Flush ran PushInternal on a failed writer, after bytes had been accepted.
C13_Witness ==
  /\ last.op = "Flush" /\ ~last.before.healthy /\ ~last.ret
  /\ Len(appends) > 0

\* The state the last operation was called in.
AvailableBefore == last.before.limit_ - last.before.cursor_
BufferedBefore == Len(last.before.buffered)
\* The last operation was a Write that took the slow path of a healthy writer.
WroteSlowly ==
  last.op = "Write" /\ last.before.healthy /\ Len(last.arg) > AvailableBefore

\* The calls of a direct write: the pending bytes, when there are any, then
\* the bytes of the Write.
DirectCalls ==
  (IF last.before.buffered # <<>> THEN <<last.before.buffered>> ELSE <<>>)
    \o <<last.arg>>
\* The calls of the last operation are the first of the direct calls, and all
\* of them when the Write succeeded.
WroteDirectly ==
  /\ Len(last.calls) <= Len(DirectCalls)
  /\ \A i \in DOMAIN last.calls : IsAppendOf(last.calls[i], DirectCalls[i])
  /\ last.ret => Len(last.calls) = Len(DirectCalls) /\ cursor_ = start_
\* No call of the last operation appends exactly the bytes of the Write, and
\* its last bytes are in the buffer when it succeeded.
WroteThroughBuffer ==
  /\ \A i \in DOMAIN last.calls : ~IsAppendOf(last.calls[i], last.arg)
  /\ last.ret => cursor_ > start_ /\ last.calls # DirectCalls

\* C14 (as stated): the threshold of a direct write is the buffer size plus
\* the number of bytes already buffered, saturating; a Write on the slow path
\* is a direct write iff it is at least that long.
C14_ThresholdAddsBuffered ==
  initialized =>
    /\ LengthToWriteDirectly(Self(0)) =
         Min(SizeMax, buffer_size + (cursor_ - start_))
    /\ WroteSlowly =>
         IF Len(last.arg) >= Min(SizeMax, buffer_size + BufferedBefore)
           THEN WroteDirectly
           ELSE WroteThroughBuffer

\* C14 (amended): the threshold of a direct write is the buffer size, plus
\* the room still available in the window when something is buffered,
\* saturating; a Write on the slow path is a direct write iff it is at least
\* that long.
C14_ThresholdAddsAvailable ==
  initialized =>
    /\ LengthToWriteDirectly(Self(0)) =
         IF cursor_ > start_
           THEN Min(SizeMax, buffer_size + (limit_ - cursor_))
           ELSE buffer_size
    /\ WroteSlowly =>
         IF Len(last.arg) >= (IF BufferedBefore > 0
                                THEN Min(SizeMax, buffer_size + AvailableBefore)
                                ELSE buffer_size)
           THEN WroteDirectly
           ELSE WroteThroughBuffer

\* With 2 bytes pending in a full buffer of 2, a Write of 2 bytes was
\* appended directly after them.
C14_Witness ==
  /\ WroteSlowly /\ last.ret /\ buffer_size = 2
  /\ BufferedBefore = 2 /\ AvailableBefore = 0 /\ Len(last.arg) = 2
  /\ Len(last.calls) = 2

\* The payloads of the Append calls are not empty.
NoEmptyAppend ==
  /\ \A i \in DOMAIN appends : appends[i].data # <<>>
  /\ \A i \in DOMAIN last.calls :
       IsAppend(last.calls[i]) => last.calls[i].data # <<>>

\* C15: every call of WriteInternal made by Push, Write or Flush finds its
\* asserted preconditions true: bytes not empty, writer healthy, nothing
\* buffered; no Append carries an empty payload.
C15_WriteInternalPreconditions ==
  /\ last.asserted
  /\ NoEmptyAppend

\* A Write called WriteInternal twice, for the pending bytes and for its
\* own, after earlier operations had called it too.
C15_Witness ==
  /\ last.op = "Write" /\ last.asserted /\ last.ret
  /\ Len(last.calls) = 2 /\ last.before.buffered # <<>>
  /\ Len(appends) >= 3

\* What the destination accepted during the last operation.
AcceptedByLast == Concat(SelectSeq(last.calls, IsOk))
\* The last operation failed the writer although the destination refused
\* nothing: the position would have overflowed.
FailedByOverflow ==
  /\ last.before.healthy /\ ~healthy
  /\ \A i \in DOMAIN last.calls : last.calls[i].ok

IsPrefix(s, t) == Len(s) <= Len(t) /\ s = SubSeq(t, 1, Len(s))

\* C17: what the destination accepted is a prefix of what was passed to
\* Write, in every state; while the writer is healthy every Write has
\* returned success, and what the destination accepted followed by the
\* buffered bytes is what was passed to Write.
C17_AcceptedIsPrefix ==
  /\ IsPrefix(Received, written)
  /\ ackedLen <= Len(written)
  /\ healthy =>
       /\ ackedLen = Len(written)
       /\ Received \o Span(Self(0), start_, cursor_) = written

\* A failed writer in the middle of a run: the destination accepted some
\* bytes, refused others, and a later Write was passed more.
C17_Witness ==
  /\ ~healthy /\ Received # <<>>
  /\ \E i \in DOMAIN appends : ~appends[i].ok
  /\ Len(written) > PassedToAppend
  /\ last.op = "Write" /\ ~last.before.healthy /\ last.arg # <<>>

\* C18: a Flush that returns success leaves the position unchanged: the
\* buffered bytes are counted in start_pos_, the cursor is back at start, and
\* start and limit are where they were.
C18_FlushKeepsPosition ==
  (last.op = "Flush" /\ last.ret) =>
    /\ Position = PositionBefore
    /\ start_pos_ = last.before.start_pos_ + Len(last.before.buffered)
    /\ cursor_ = start_
    /\ start_ = last.before.start_
    /\ limit_ = last.before.limit_

\* A Flush of each granularity is covered by the invariant; here a Sync
\* succeeded after bytes were pending in a window with room left.
C18_Witness ==
  /\ last.op = "Flush" /\ last.ret /\ last.arg = "kFromMachine"
  /\ last.before.buffered # <<>>
  /\ limit_ > last.before.cursor_
  /\ Len(last.calls) = 2

\* The writer was initialized over an open destination, which answered Name()
\* with name_status.
NameAnswered(name_status) ==
  /\ last.op = "Initialize" /\ last.calls # <<>>
  /\ last.calls[1].op = "Name" /\ last.calls[1].data[1] = name_status
TellFailed == Len(last.calls) = 2 /\ ~last.calls[2].ok

\* C19: over an open destination, Name() answered "unimplemented" does not
\* fail the writer and leaves the name empty; answered with a name, the name
\* is stored; failing otherwise, the writer fails for good, before anything
\* is appended.  A failure annotation carries the name iff it is not empty.
C19_NameQuery ==
  /\ NameAnswered("unimplemented") =>
       /\ filename_ = ""
       /\ healthy <=> ~TellFailed
       /\ ~healthy => status = <<"WritableFile::Tell()", " failed">>
  /\ NameAnswered("ok") =>
       /\ filename_ = last.calls[1].data[2]
       /\ healthy <=> ~TellFailed
       /\ ~healthy => Annotated("WritableFile::Tell()")
  /\ NameAnswered("failed") =>
       /\ ~healthy /\ filename_ = ""
       /\ status = <<"WritableFile::Name()", " failed">>
  /\ (status # NoStatus /\ status[1] = "WritableFile::Name()") =>
       ~healthy /\ appends = <<>>
  /\ (status # NoStatus /\ status # Overflow) => Annotated(status[1])

\* Name() was not supported, and the writer is healthy and nameless.
C19_Witness ==
  /\ NameAnswered("unimplemented") /\ healthy /\ filename_ = ""
  /\ initPos > 0

OpenOperations == {"Env::NewAppendableFile()", "Env::NewWritableFile()"}
\* The first failure of the writer was that of `operation'.
FailedIn(operation) == status # NoStatus /\ status[1] = operation
\* The destination was never called to append, flush or sync: the last
\* operation, when it is not the constructor, made no call at all.
DestinationUntouched ==
  /\ appends = <<>>
  /\ last.op # "Initialize" => last.calls = <<>>

\* C20: a failed Tell() in the constructor fails the writer and start_pos_ is
\* not assigned; a failed open by path fails the writer with an annotation
\* made of the open primitive and the path, returns no destination and makes
\* no Tell(); Append, Flush and Sync are never called afterwards.
C20_InitializationFailure ==
  /\ (last.op = "Initialize" /\ LastCallFailed("Tell")) =>
       ~healthy /\ start_pos_ = 0
  /\ (last.op = "Initialize" /\ last.calls # <<>>
        /\ last.calls[1].op \in OpenOperations /\ ~last.calls[1].ok) =>
       /\ ~healthy /\ ~last.ret /\ Len(last.calls) = 1
       /\ filename_ # ""
       /\ status = <<last.calls[1].op, " failed", " writing ", filename_>>
  /\ FailedIn("WritableFile::Tell()") =>
       /\ ~healthy /\ start_pos_ = 0 /\ DestinationUntouched
       /\ Annotated("WritableFile::Tell()")
  /\ (\E operation \in OpenOperations : FailedIn(operation)) =>
       /\ ~healthy /\ start_pos_ = 0 /\ DestinationUntouched
       /\ Len(status) = 4 /\ status[4] = filename_ /\ filename_ # ""

\* The open by path failed, and a later Write of bytes was refused without a
\* call on the destination.
C20_Witness ==
  /\ FailedIn("Env::NewAppendableFile()")
  /\ last.op = "Write" /\ last.arg # <<>> /\ ~last.ret /\ last.calls = <<>>
  /\ previous.flush_type # ""

====
